---- MODULE Spec2Model ----
(***************************************************************************)
(* Thread-caching slab allocator (slab_alloc / slab_free and the thread    *)
(* destructor).  Memory is modelled as words at integer addresses: a slab  *)
(* header per aligned region, the link word of every block, the per-thread *)
(* cache.  slab_alloc and slab_free run one source statement (or one group *)
(* of statements with a single access to shared memory) per step, so calls *)
(* of different threads interleave as they do on the machine.              *)
(***************************************************************************)
EXTENDS Integers, Sequences, FiniteSets, TLC

VARIABLES geom, work, tstate, cache, hdr, blk, rawlive, released, held,
          pc, loc, ret, fault

vars == <<geom, work, tstate, cache, hdr, blk, rawlive, released, held,
          pc, loc, ret, fault>>

(* ----------------------------- bounds ---------------------------------- *)

NThreads == 2
MaxSlabs == 2
SizeBits == 16
OwnerAllocs == 4
PeerWarmup == 1
PeerFrees == 3
PeerAllocs == 5
FirstAllocs == 1
SeqFill == 6
SeqFrees == 5
SeqDrain == 3
MaxDepth == 3
SoloAllocs == 4
SoloPairs == 2
SoloDrain == 6
StressAllocs == 3
StressPairs == 1
MaxRefusals == 1

(* ------------------------- program constants --------------------------- *)

NULL == 0
BLOCK_SIZE == 64
BLOCK_COUNT == 1024
BLOCK_CACHE_LIMIT == 64
BLOCK_CACHE_REFILL_LIMIT == 32
SIZEOF_SLAB == 56

\* What malloc guarantees of the addresses it returns: multiples of
\* alignof(max_align_t).
MALLOC_ALIGN == 16

Threads == 1 .. NThreads
Slots == 1 .. MaxSlabs
SIZE_MOD == 2 ^ SizeBits

\* The build's geometry as the source fixes it; malloc_offset is how far past
\* a multiple of the alignment the system allocator places the allocations
\* that are not aligned already.
RealGeom ==
    [block_size |-> BLOCK_SIZE, block_count |-> BLOCK_COUNT,
     sizeof_slab |-> SIZEOF_SLAB, cache_limit |-> BLOCK_CACHE_LIMIT,
     refill_limit |-> BLOCK_CACHE_REFILL_LIMIT, malloc_offset |-> BLOCK_SIZE]

\* The same build scaled down: refill_limit < cache_limit < usable blocks,
\* and block_size * block_count a power of two, as in the source.
ScaledGeom ==
    [block_size |-> 1, block_count |-> 4, sizeof_slab |-> 1,
     cache_limit |-> 2, refill_limit |-> 1, malloc_offset |-> 1]

\* The build of the source with a quarter of the blocks per slab: the header
\* still takes ALIGN_UP(56, 64) slots, and the usable blocks are a multiple of
\* the refill batch, as in the source.
ShortGeom == [RealGeom EXCEPT !.block_count = 256]

\* The shorter build with the system allocator placing its results off bytes
\* past a multiple of the alignment; the offsets tried are the smallest and
\* the largest malloc can produce, and some between.
Placed(off) == [ShortGeom EXCEPT !.malloc_offset = off]
MallocOffsets ==
    LET alignment == ShortGeom.block_size * ShortGeom.block_count
    IN  {MALLOC_ALIGN, 3 * MALLOC_ALIGN, alignment \div 2, alignment - MALLOC_ALIGN}

(* --------------------------- bit arithmetic ---------------------------- *)

RECURSIVE BitAnd(_, _)
BitAnd(x, y) ==
    IF x = 0 \/ y = 0 THEN 0
    ELSE (x % 2) * (y % 2) + 2 * BitAnd(x \div 2, y \div 2)

\* x & ~m
AndNot(x, m) == x - BitAnd(x, m)

ALIGN_DOWN(x, align) == AndNot(x, align - 1)

\* #define ALIGN_UP(x, align) (((x) + ((align) - 1)) & ~((align) - 1))
ALIGN_UP(x, align) == AndNot(x + (align - 1), align - 1)

\* size_t arithmetic
SizeDec(x) == (x - 1) % SIZE_MOD
SizeInc(x) == (x + 1) % SIZE_MOD

(* ------------------------------ layout --------------------------------- *)

Alignment == geom.block_size * geom.block_count
SLAB_OVERHEAD == ALIGN_UP(geom.sizeof_slab, geom.block_size)
EFFECTIVE_BLOCKS == geom.block_count - SLAB_OVERHEAD

\* The addresses malloc(2 * alignment) can return: disjoint regions of
\* 2 * alignment bytes, those of odd slots already aligned and those of even
\* slots malloc_offset bytes past an aligned address.
RawAddr(i) ==
    2 * Alignment * i + Alignment * ((i - 1) \div 2) + ((i + 1) % 2) * geom.malloc_offset
SlabAddr(i) == ALIGN_UP(RawAddr(i), Alignment)
BlockStart(i) == SlabAddr(i) + SLAB_OVERHEAD * geom.block_size
BlocksOf(i) ==
    LET first == BlockStart(i)
        size == geom.block_size
    IN  {first + k * size : k \in 0 .. EFFECTIVE_BLOCKS - 1}
SlabAddrs == {SlabAddr(i) : i \in Slots}
BlockAddrs == UNION {BlocksOf(i) : i \in Slots}
SlotAt(a) == CHOOSE i \in Slots : RawAddr(i) <= a /\ a < RawAddr(i) + 2 * Alignment

\* (uintptr_t)block & ~(BLOCK_SIZE * BLOCK_COUNT - 1)
MemStart(b) == AndNot(b, Alignment - 1)

(* ------------------------------ records -------------------------------- *)

ZeroCache == [current_slab |-> NULL, partial_slabs |-> NULL, fastbin |-> NULL, fastbin_count |-> 0]
ZeroSlab == [mem |-> NULL, raw_allocation |-> NULL, free_count |-> 0, free_list |-> NULL, next |-> NULL]
NoLoc == [slab |-> NULL, block |-> NULL, batch |-> <<>>, i |-> 0, depth |-> 0, entry |-> ZeroCache,
          prev |-> "none"]
NoRet == "none"

(* --------------------------- list traversal ---------------------------- *)

\* The slabs met by following next links from h.
RECURSIVE ChainFrom(_, _)
ChainFrom(h, seen) ==
    IF h = NULL \/ h \in seen \/ h \notin SlabAddrs THEN seen
    ELSE ChainFrom(hdr[h].next, seen \cup {h})

Chain(h) == ChainFrom(h, {})

\* The slabs a thread's cache reaches.
Reach(t) ==
    IF tstate[t] = "live"
    THEN Chain(cache[t].current_slab) \cup Chain(cache[t].partial_slabs)
    ELSE {}

ReachOthers(t) == UNION {Reach(u) : u \in Threads \ {t}}

\* The blocks met by following block links from b, in order, each once.
RECURSIVE ListFrom(_, _)
ListFrom(b, acc) ==
    IF b = NULL \/ b \notin BlockAddrs \/ (\E k \in 1 .. Len(acc) : acc[k] = b) THEN acc
    ELSE ListFrom(blk[b], Append(acc, b))

List(b) == ListFrom(b, <<>>)
ListSet(b) == {List(b)[k] : k \in 1 .. Len(List(b))}
\* TRUE when the chain from b ends in NULL without meeting a block twice.
RECURSIVE Acyclic(_, _)
Acyclic(b, seen) ==
    IF b = NULL THEN TRUE
    ELSE IF b \in seen \/ b \notin BlockAddrs THEN FALSE
    ELSE Acyclic(blk[b], seen \cup {b})


(* ------------------------------ helpers -------------------------------- *)

Idle(t) == pc[t] = "idle"

\* What a caller running worker() does with the result of slab_alloc: it
\* stores the pointer in ptrs (or in block), without testing it.
Stored(w, b) ==
    IF ~w.strict THEN w
    ELSE [w EXCEPT !.ptrs = Append(@, b), !.refused = IF b = NULL THEN @ + 1 ELSE @]

\* The call of thread t returns block b to its caller.
ReturnBlock(t, b) ==
    /\ pc' = [pc EXCEPT ![t] = "idle"]
    /\ loc' = [loc EXCEPT ![t] = NoLoc]
    /\ ret' = [ret EXCEPT ![t] = IF b = NULL THEN "null"
                                ELSE IF loc[t].prev = "freed" THEN "block_after_free"
                                ELSE "block"]
    /\ held' = IF b = NULL THEN held ELSE [held EXCEPT ![b] = @ + 1]
    /\ work' = [work EXCEPT ![t] = Stored(@, b)]

PopFastbinUncounted(c) == [c EXCEPT !.fastbin = blk[c.fastbin]]
PopFastbinStuck(c) == [c EXCEPT !.fastbin_count = SizeDec(c.fastbin_count)]

\* block = cache->fastbin; cache->fastbin = block->next; cache->fastbin_count--;
PopFastbin(c) ==
    [c EXCEPT !.fastbin = blk[c.fastbin], !.fastbin_count = SizeDec(c.fastbin_count)]

PushFastbinUncounted(c, b) == [c EXCEPT !.fastbin = b]

\* b->next = cache->fastbin; cache->fastbin = b; cache->fastbin_count++;
PushFastbin(c, b) ==
    [c EXCEPT !.fastbin = b, !.fastbin_count = SizeInc(c.fastbin_count)]

\* The header and the block links allocate_new_slab writes into slot i.
NewSlabHeader(i, cur) ==
    [mem |-> SlabAddr(i), raw_allocation |-> RawAddr(i),
     free_count |-> EFFECTIVE_BLOCKS, free_list |-> BlockStart(i), next |-> cur]

NewSlabLinks(i) ==
    LET first == BlockStart(i)
        last == BlockStart(i) + (EFFECTIVE_BLOCKS - 1) * geom.block_size
    IN  [b \in BlockAddrs |->
            IF first <= b /\ b <= last
            THEN IF b = last THEN NULL ELSE b + geom.block_size
            ELSE blk[b]]

\* The memory the next step of thread t reads or writes.
Accessed(t) ==
    LET c == cache[t]
        l == loc[t]
        bt == IF l.i + 1 \in DOMAIN l.batch THEN {l.batch[l.i + 1]} ELSE {}
    IN  CASE pc[t] = "a1" -> IF c.fastbin # NULL THEN {c.fastbin} ELSE {c.current_slab}
          [] pc[t] \in {"a2", "r1", "p1", "p3", "f3", "f4"} -> {l.slab}
          [] pc[t] = "r2" -> {l.slab} \cup bt
          [] pc[t] = "r3" -> bt
          [] pc[t] = "r4" -> {c.fastbin}
          [] pc[t] = "p2" -> {l.slab, l.block}
          [] pc[t] = "a3" -> {c.partial_slabs}
          [] pc[t] = "f1" -> IF c.fastbin_count < geom.cache_limit THEN {l.block} ELSE {}
          [] pc[t] = "f2" -> {l.block, MemStart(l.block)}
          [] OTHER -> {}

(* ------------------------------- Init ---------------------------------- *)

\* A thread's workload, as worker() of the benchmark runs it: phases of
\* slab_alloc calls and of slab_free calls, each of at most n calls; "after"
\* names the thread that is joined before this thread is created (0: none).
\* A strict workload is worker() to the letter: every phase runs its n calls,
\* in order; slab_alloc stores its result in ptrs, a "free" phase frees
\* ptrs in the order they were stored, and "alloc" 1 followed by "pfree" 1 is
\* the pair "block = slab_alloc(); slab_free(block);".
Phase(op, n) == [op |-> op, n |-> n]
\* "snap" is what the caller of a pair saw before its slab_alloc.
\* "refused" counts the slab_alloc calls of the workload that returned NULL,
\* "freed" counts the slab_free calls of a worker().  A thread without a
\* workload is one the benchmark does not create.
NoWork == [script |-> <<>>, after |-> 0, strict |-> FALSE, ptrs |-> <<>>, snap |-> <<>>,
           refused |-> 0, freed |-> 0, created |-> FALSE]
Loose(script, after) == [NoWork EXCEPT !.script = script, !.after = after, !.created = TRUE]
Strict(script, after) ==
    [NoWork EXCEPT !.script = script, !.after = after, !.strict = TRUE, !.created = TRUE]

\* n times the pair of worker()'s last loop.
RECURSIVE Pairs(_)
Pairs(n) == IF n = 0 THEN <<>> ELSE <<Phase("alloc", 1), Phase("pfree", 1)>> \o Pairs(n - 1)

\* The first phase of the script that still allows a call of op (0: none).
PhaseFor(script, op) ==
    IF \E k \in 1 .. Len(script) : script[k].op = op /\ script[k].n > 0
    THEN CHOOSE k \in 1 .. Len(script) :
            /\ script[k].op = op /\ script[k].n > 0
            /\ \A j \in 1 .. k - 1 : ~(script[j].op = op /\ script[j].n > 0)
    ELSE 0

CanCall(t, op) ==
    IF work[t].strict
    THEN work[t].script # <<>> /\ work[t].script[1].op = op
    ELSE PhaseFor(work[t].script, op) > 0

\* The script left after one call of op: earlier phases are over.
AfterCall(script, op) ==
    LET k == PhaseFor(script, op) IN
    IF script[k].n = 1 THEN SubSeq(script, k + 1, Len(script))
    ELSE <<Phase(op, script[k].n - 1)>> \o SubSeq(script, k + 1, Len(script))

InitWith(G, W) ==
    /\ geom = G
    /\ work = W
    /\ tstate = [t \in Threads |-> "new"]
    /\ cache = [t \in Threads |-> ZeroCache]
    /\ hdr = [s \in SlabAddrs |-> ZeroSlab]
    /\ blk = [b \in BlockAddrs |-> NULL]
    /\ rawlive = [i \in Slots |-> FALSE]
    /\ released = [i \in Slots |-> 0]
    /\ held = [b \in BlockAddrs |-> 0]
    /\ pc = [t \in Threads |-> "idle"]
    /\ loc = [t \in Threads |-> NoLoc]
    /\ ret = [t \in Threads |-> NoRet]
    /\ fault = "none"

\* Two threads run concurrently: thread 1 allocates (and may free), thread 2
\* allocates and frees, also blocks that thread 1 handed over.
Init ==
    InitWith(ScaledGeom,
             [t \in Threads |->
                IF t = 1 THEN Loose(<<Phase("alloc", OwnerAllocs)>>, 0)
                ELSE IF t = 2
                THEN Loose(<<Phase("alloc", PeerWarmup), Phase("free", PeerFrees),
                             Phase("alloc", PeerAllocs)>>, 0)
                ELSE NoWork])

\* Thread 1 allocates and exits; thread 2 is started after thread 1 was joined
\* and runs a long workload, also freeing what thread 1 left behind.
InitSeq ==
    InitWith(ScaledGeom,
             [t \in Threads |->
                IF t = 1 THEN Loose(<<Phase("alloc", FirstAllocs)>>, 0)
                ELSE IF t = 2
                THEN Loose(<<Phase("alloc", SeqFill), Phase("free", SeqFrees),
                             Phase("alloc", SeqDrain)>>, 1)
                ELSE NoWork])

\* worker() of the benchmark on a thread of its own: pairs, then M
\* allocations, the M frees, pairs, and last allocations that are handed
\* over (d of them); a second thread starts after the first was joined and
\* allocates and frees, also what the first handed over.
SoloLoad(d) ==
    [t \in Threads |->
        IF t = 1
        THEN Strict(Pairs(SoloPairs) \o <<Phase("alloc", SoloAllocs), Phase("free", SoloAllocs)>>
                    \o Pairs(SoloPairs) \o <<Phase("alloc", d)>>, 0)
        ELSE IF t = 2
        THEN Loose(<<Phase("alloc", 1), Phase("free", 2), Phase("alloc", 3),
                     Phase("free", 1), Phase("alloc", 1), Phase("free", 1)>>, 1)
        ELSE NoWork]

\* benchmark_multithreaded: every thread runs worker() concurrently.
StressLoad ==
    [t \in Threads |->
        Strict(<<Phase("alloc", StressAllocs), Phase("free", StressAllocs)>>
               \o Pairs(StressPairs), 0)]

\* The blocks of a slab in the build G.
UsableBlocks(G) == G.block_count - ALIGN_UP(G.sizeof_slab, G.block_size)

\* Thread 1 runs alone.  In the build with shorter slabs it either allocates
\* until every slab the system provides has been built, frees the first
\* BLOCK_CACHE_LIMIT + 1 blocks and allocates until the slab it had used up is
\* taken from the partial list again, or it allocates BLOCK_CACHE_LIMIT + 1
\* blocks and frees them.  In the build of the source it allocates one block
\* and hands it to thread 2, which starts after it and frees the block; the
\* same is run in the shorter build for every placement of the allocations.
FillLoad ==
    <<Phase("alloc", UsableBlocks(ShortGeom) * (MaxSlabs - 1) + 1),
      Phase("free", ShortGeom.cache_limit + 1),
      Phase("alloc", UsableBlocks(ShortGeom) + ShortGeom.refill_limit + 1)>>

SaturateLoad ==
    <<Phase("alloc", ShortGeom.cache_limit + 1), Phase("free", ShortGeom.cache_limit + 1)>>

HandOverLoad == <<Phase("alloc", 1)>>

RealLoad(script) ==
    [t \in Threads |->
        IF t = 1 THEN Strict(script, 0)
        ELSE IF t = 2 /\ script = HandOverLoad THEN Loose(<<Phase("free", 1)>>, 1)
        ELSE NoWork]

InitReal ==
    \/ InitWith(RealGeom, RealLoad(HandOverLoad))
    \/ \E off \in MallocOffsets : InitWith(Placed(off), RealLoad(HandOverLoad))
    \/ \E script \in {FillLoad, SaturateLoad} : InitWith(ShortGeom, RealLoad(script))

InitWork == \E W \in {SoloLoad(d) : d \in 1 .. SoloDrain} \cup {StressLoad} : InitWith(ScaledGeom, W)

\* The process was killed: nothing of its state remains.
Crash(kind) ==
    /\ fault' = kind
    /\ work' = [t \in Threads |-> NoWork]
    /\ tstate' = [t \in Threads |-> "exited"]
    /\ cache' = [t \in Threads |-> ZeroCache]
    /\ hdr' = [s \in SlabAddrs |-> ZeroSlab]
    /\ blk' = [b \in BlockAddrs |-> NULL]
    /\ rawlive' = [i \in Slots |-> FALSE]
    /\ released' = [i \in Slots |-> 0]
    /\ held' = [b \in BlockAddrs |-> 0]
    /\ pc' = [t \in Threads |-> "idle"]
    /\ loc' = [t \in Threads |-> NoLoc]
    /\ ret' = [t \in Threads |-> NoRet]
    /\ UNCHANGED geom

\* A thread runs once the thread it waits for, if any, has exited.
Started(t) == IF work[t].after = 0 THEN TRUE ELSE tstate[work[t].after] = "exited"

(* --------------------------- slab_alloc -------------------------------- *)

\* The depth of the self-call "return slab_alloc();", counted up to MaxDepth.
Deeper(d) == IF d < MaxDepth THEN d + 1 ELSE d

\* fast_thread_cache / get_thread_cache with calloc succeeding: the first call
\* of a thread creates its zeroed cache.
WithCache(t) == [tstate EXCEPT ![t] = "live"]

\* The state a caller of the pair "block = slab_alloc(); slab_free(block);"
\* could observe before the pair.
Seen(t) ==
    LET w == work[t] IN
    IF w.strict /\ Len(w.script) >= 2 /\ w.script[1].n = 1 /\ w.script[2].op = "pfree"
    THEN <<[cache |-> cache[t], hdr |-> hdr, blk |-> blk]>>
    ELSE <<>>

\* A thread calls slab_alloc().
SlabAllocCall(t) ==
    /\ fault = "none" /\ Idle(t) /\ tstate[t] # "exited" /\ Started(t)
    /\ CanCall(t, "alloc")
    /\ work' = [work EXCEPT ![t].script = AfterCall(@, "alloc"), ![t].snap = Seen(t)]
    /\ tstate' = WithCache(t)
    /\ pc' = [pc EXCEPT ![t] = "a1"]
    /\ loc' = [loc EXCEPT ![t] = [NoLoc EXCEPT !.entry = cache[t], !.prev = ret[t]]]
    /\ ret' = [ret EXCEPT ![t] = NoRet]
    /\ UNCHANGED <<geom, cache, hdr, blk, rawlive, released, held, fault>>

\* Lines 165-174: Tier 1 pops the fastbin; otherwise test the current slab.
AllocTier1(t) ==
    LET c == cache[t] IN
    /\ fault = "none" /\ pc[t] = "a1"
    /\ IF c.fastbin # NULL
       THEN /\ cache' = [cache EXCEPT ![t] = PopFastbin(c)]
            /\ ReturnBlock(t, c.fastbin)
       ELSE IF c.current_slab # NULL /\ hdr[c.current_slab].free_count # 0
       THEN /\ pc' = [pc EXCEPT ![t] = "a2"]
            /\ loc' = [loc EXCEPT ![t].slab = c.current_slab]
            /\ UNCHANGED <<cache, ret, held, work>>
       ELSE /\ pc' = [pc EXCEPT ![t] = "a3"]
            /\ UNCHANGED <<cache, loc, ret, held, work>>
    /\ UNCHANGED <<geom, tstate, hdr, blk, rawlive, released, fault>>

\* Line 179: enough free blocks for a batched refill?
AllocTier2(t) ==
    LET s == loc[t].slab IN
    /\ fault = "none" /\ pc[t] = "a2"
    /\ IF hdr[s].free_count > geom.refill_limit
       THEN pc' = [pc EXCEPT ![t] = "r1"]
       ELSE pc' = [pc EXCEPT ![t] = "p1"]
    /\ UNCHANGED <<geom, work, tstate, cache, hdr, blk, rawlive, released, held, loc, ret, fault>>

\* Line 184: batch[i] = slab->free_list;
RefillRead(t) ==
    LET s == loc[t].slab IN
    /\ fault = "none" /\ pc[t] = "r1"
    /\ loc' = [loc EXCEPT ![t].batch = Append(@, hdr[s].free_list)]
    /\ pc' = [pc EXCEPT ![t] = "r2"]
    /\ UNCHANGED <<geom, work, tstate, cache, hdr, blk, rawlive, released, held, ret, fault>>

\* Lines 185-186: slab->free_list = batch[i]->next; slab->free_count--;
RefillTake(t) ==
    LET s == loc[t].slab
        b == loc[t].batch[loc[t].i + 1]
    IN
    /\ fault = "none" /\ pc[t] = "r2"
    /\ IF b = NULL
       THEN Crash("segv")
       ELSE /\ hdr' = [hdr EXCEPT ![s].free_list = blk[b], ![s].free_count = SizeDec(@)]
            /\ IF loc[t].i + 1 < geom.refill_limit
               THEN /\ loc' = [loc EXCEPT ![t].i = @ + 1]
                    /\ pc' = [pc EXCEPT ![t] = "r1"]
               ELSE /\ loc' = [loc EXCEPT ![t].i = 0]
                    /\ pc' = [pc EXCEPT ![t] = "r3"]
            /\ UNCHANGED <<geom, work, tstate, cache, blk, rawlive, released, held, ret, fault>>

\* Lines 190-192: batch[i]->next = cache->fastbin; cache->fastbin = batch[i]; cache->fastbin_count++;
RefillPush(t) ==
    LET b == loc[t].batch[loc[t].i + 1] IN
    /\ fault = "none" /\ pc[t] = "r3"
    /\ blk' = [blk EXCEPT ![b] = cache[t].fastbin]
    /\ cache' = [cache EXCEPT ![t] = PushFastbin(@, b)]
    /\ IF loc[t].i + 1 < geom.refill_limit
       THEN /\ loc' = [loc EXCEPT ![t].i = @ + 1]
            /\ UNCHANGED pc
       ELSE /\ loc' = [loc EXCEPT ![t].i = 0]
            /\ pc' = [pc EXCEPT ![t] = "r4"]
    /\ UNCHANGED <<geom, work, tstate, hdr, rawlive, released, held, ret, fault>>

\* Lines 196-199: pop the top of the fastbin and return it.
RefillPop(t) ==
    LET c == cache[t] IN
    /\ fault = "none" /\ pc[t] = "r4"
    /\ cache' = [cache EXCEPT ![t] = PopFastbin(c)]
    /\ ReturnBlock(t, c.fastbin)
    /\ UNCHANGED <<geom, tstate, hdr, blk, rawlive, released, fault>>

\* Line 202: block = slab->free_list;
SlabPopRead(t) ==
    LET s == loc[t].slab IN
    /\ fault = "none" /\ pc[t] = "p1"
    /\ loc' = [loc EXCEPT ![t].block = hdr[s].free_list]
    /\ pc' = [pc EXCEPT ![t] = "p2"]
    /\ UNCHANGED <<geom, work, tstate, cache, hdr, blk, rawlive, released, held, ret, fault>>

\* Lines 203-204: slab->free_list = block->next; slab->free_count--;
SlabPopTake(t) ==
    LET s == loc[t].slab
        b == loc[t].block
    IN
    /\ fault = "none" /\ pc[t] = "p2"
    /\ IF b = NULL
       THEN Crash("segv")
       ELSE /\ hdr' = [hdr EXCEPT ![s].free_list = blk[b], ![s].free_count = SizeDec(@)]
            /\ pc' = [pc EXCEPT ![t] = "p3"]
            /\ UNCHANGED <<geom, work, tstate, cache, blk, rawlive, released, held, loc, ret, fault>>

KeepWhenEmpty(c, s) == c

\* Lines 207-210: drop the slab when it has no free block left; return the block.
DropIfEmpty(c, s) ==
    IF hdr[s].free_count = 0 THEN [c EXCEPT !.current_slab = NULL] ELSE c

SlabPopReturn(t) ==
    LET s == loc[t].slab IN
    /\ fault = "none" /\ pc[t] = "p3"
    /\ cache' = [cache EXCEPT ![t] = DropIfEmpty(@, s)]
    /\ ReturnBlock(t, loc[t].block)
    /\ UNCHANGED <<geom, tstate, hdr, blk, rawlive, released, fault>>

\* Lines 214-221: Tier 3 pops the head of partial_slabs, makes it current and retries.
PopPartial(c) ==
    [c EXCEPT !.partial_slabs = hdr[c.partial_slabs].next, !.current_slab = c.partial_slabs]

AllocTier3(t) ==
    /\ fault = "none" /\ pc[t] = "a3"
    /\ cache[t].partial_slabs # NULL
    /\ cache' = [cache EXCEPT ![t] = PopPartial(@)]
    /\ loc' = [loc EXCEPT ![t] = [NoLoc EXCEPT !.depth = Deeper(loc[t].depth), !.entry = loc[t].entry,
                                              !.prev = loc[t].prev]]
    /\ pc' = [pc EXCEPT ![t] = "a1"]
    /\ UNCHANGED <<geom, work, tstate, hdr, blk, rawlive, released, held, ret, fault>>

\* Lines 224-229 with allocate_new_slab (106-153): malloc returns the memory of
\* any slot that is not allocated; the new slab is linked in front of
\* current_slab and the call retries.
AllocTier4(t) ==
    /\ fault = "none" /\ pc[t] = "a3"
    /\ cache[t].partial_slabs = NULL
    /\ \E i \in Slots :
        /\ ~rawlive[i]
        /\ rawlive' = [rawlive EXCEPT ![i] = TRUE]
        /\ released' = [released EXCEPT ![i] = 0]
        /\ hdr' = [hdr EXCEPT ![SlabAddr(i)] = NewSlabHeader(i, cache[t].current_slab)]
        /\ blk' = NewSlabLinks(i)
        /\ cache' = [cache EXCEPT ![t].current_slab = SlabAddr(i)]
    /\ loc' = [loc EXCEPT ![t] = [NoLoc EXCEPT !.depth = Deeper(loc[t].depth), !.entry = loc[t].entry,
                                              !.prev = loc[t].prev]]
    /\ pc' = [pc EXCEPT ![t] = "a1"]
    /\ UNCHANGED <<geom, work, tstate, held, ret, fault>>

\* Lines 111-112 and 225: malloc refuses the request; slab_alloc returns NULL.
\* A worker() is refused at most MaxRefusals times.
AllocOutOfMemory(t) ==
    /\ fault = "none" /\ pc[t] = "a3"
    /\ cache[t].partial_slabs = NULL
    /\ work[t].strict => work[t].refused < MaxRefusals
    /\ ReturnBlock(t, NULL)
    /\ UNCHANGED <<geom, tstate, cache, hdr, blk, rawlive, released, fault>>


(* ---------------------------- slab_free -------------------------------- *)

\* The addresses thread t may pass to slab_free next: any address some
\* caller holds, or what worker() reads from ptrs.
FreeArgs(t) ==
    LET w == work[t] IN
    IF ~w.strict THEN {b \in BlockAddrs : held[b] > 0}
    ELSE IF w.ptrs = <<>> THEN {}
    ELSE IF w.script[1].op = "pfree" THEN {w.ptrs[Len(w.ptrs)]}
    ELSE {w.ptrs[1]}

\* ptrs without the address passed to slab_free.
Forget(w) ==
    IF ~w.strict THEN w.ptrs
    ELSE IF w.script[1].op = "pfree" THEN SubSeq(w.ptrs, 1, Len(w.ptrs) - 1)
    ELSE Tail(w.ptrs)

FreeOp(t) ==
    IF work[t].strict /\ work[t].script # <<>> /\ work[t].script[1].op = "pfree"
    THEN "pfree" ELSE "free"

\* A thread calls slab_free(b) with an address some caller holds.  worker()
\* also passes a NULL it got from slab_alloc: both paths of slab_free
\* dereference it (line 244, or line 255 through the masked address).
SlabFreeCall(t) ==
    /\ fault = "none" /\ Idle(t) /\ tstate[t] # "exited" /\ Started(t)
    /\ CanCall(t, FreeOp(t))
    /\ \E b \in FreeArgs(t) :
          IF b = NULL
          THEN Crash("segv")
          ELSE /\ held[b] > 0
               /\ held' = [held EXCEPT ![b] = @ - 1]
               /\ loc' = [loc EXCEPT ![t] = [NoLoc EXCEPT !.block = b, !.entry = cache[t],
                                                       !.prev = ret[t]]]
               /\ work' = [work EXCEPT ![t].script = AfterCall(@, FreeOp(t)),
                                        ![t].ptrs = Forget(work[t]),
                                        ![t].snap = IF FreeOp(t) = "pfree" THEN @ ELSE <<>>,
                                        ![t].freed = IF work[t].strict THEN @ + 1 ELSE @]
               /\ tstate' = WithCache(t)
               /\ pc' = [pc EXCEPT ![t] = "f1"]
               /\ ret' = [ret EXCEPT ![t] = NoRet]
               /\ UNCHANGED <<geom, cache, hdr, blk, rawlive, released, fault>>

\* The call of thread t returns.
ReturnFree(t) ==
    /\ pc' = [pc EXCEPT ![t] = "idle"]
    /\ loc' = [loc EXCEPT ![t] = NoLoc]
    /\ ret' = [ret EXCEPT ![t] = "freed"]

FastbinHasRoomAtLimit(c) == c.fastbin_count <= geom.cache_limit

\* Lines 243-248: the fast path pushes the block on the caller's fastbin.
FastbinHasRoom(c) == c.fastbin_count < geom.cache_limit

FreeFast(t) ==
    LET b == loc[t].block IN
    /\ fault = "none" /\ pc[t] = "f1"
    /\ IF FastbinHasRoom(cache[t])
       THEN /\ blk' = [blk EXCEPT ![b] = cache[t].fastbin]
            /\ cache' = [cache EXCEPT ![t] = PushFastbin(@, b)]
            /\ ReturnFree(t)
       ELSE /\ pc' = [pc EXCEPT ![t] = "f2"]
            /\ UNCHANGED <<blk, cache, loc, ret>>
    /\ UNCHANGED <<geom, work, tstate, hdr, rawlive, released, held, fault>>

\* Lines 251-252: the slab header the block's address masks to.
Parent(b) == hdr[MemStart(b)].mem

\* Lines 251-255: find the parent; b->next = parent->free_list;
FreeSlowRead(t) ==
    LET b == loc[t].block
        parent == Parent(b)
    IN
    /\ fault = "none" /\ pc[t] = "f2"
    /\ IF parent \notin SlabAddrs
       THEN Crash("segv")
       ELSE /\ blk' = [blk EXCEPT ![b] = hdr[parent].free_list]
            /\ loc' = [loc EXCEPT ![t].slab = parent]
            /\ pc' = [pc EXCEPT ![t] = "f3"]
            /\ UNCHANGED <<geom, work, tstate, cache, hdr, rawlive, released, held, ret, fault>>

\* Lines 256-257: parent->free_list = b; parent->free_count++;
FreeSlowPush(t) ==
    LET b == loc[t].block
        parent == loc[t].slab
    IN
    /\ fault = "none" /\ pc[t] = "f3"
    /\ hdr' = [hdr EXCEPT ![parent].free_list = b, ![parent].free_count = SizeInc(@)]
    /\ pc' = [pc EXCEPT ![t] = "f4"]
    /\ UNCHANGED <<geom, work, tstate, cache, blk, rawlive, released, held, loc, ret, fault>>

BecamePartialMissed(c, parent) == FALSE

\* Line 260: did the slab go from full to partial, and is it not the current slab?
BecamePartial(c, parent) == hdr[parent].free_count = 1 /\ parent # c.current_slab

\* Lines 260-263: put the slab at the head of the caller's partial list.
FreeSlowLink(t) ==
    LET parent == loc[t].slab IN
    /\ fault = "none" /\ pc[t] = "f4"
    /\ IF BecamePartial(cache[t], parent)
       THEN /\ hdr' = [hdr EXCEPT ![parent].next = cache[t].partial_slabs]
            /\ cache' = [cache EXCEPT ![t].partial_slabs = parent]
       ELSE UNCHANGED <<hdr, cache>>
    /\ ReturnFree(t)
    /\ UNCHANGED <<geom, work, tstate, blk, rawlive, released, held, fault>>

(* ------------------------ thread start and exit ------------------------ *)

\* get_thread_cache, lines 80-85, with calloc returning NULL: the caller
\* dereferences the null cache.
CacheAllocFails(t) ==
    /\ fault = "none" /\ Idle(t) /\ tstate[t] = "new" /\ Started(t)
    /\ \/ CanCall(t, "alloc")
       \/ CanCall(t, FreeOp(t)) /\ FreeArgs(t) # {}
    /\ Crash("null_cache")

\* The slabs a walk "while(slab) { next = slab->next; ...; slab = next; }"
\* visits from h, in order, up to the first slab it meets again.
RECURSIVE WalkFrom(_, _)
WalkFrom(h, acc) ==
    IF h = NULL \/ h \notin SlabAddrs THEN acc
    ELSE IF \E k \in 1 .. Len(acc) : acc[k] = h THEN Append(acc, h)
    ELSE WalkFrom(hdr[h].next, Append(acc, h))

\* slab_thread_destructor, lines 33-56: the slabs whose raw_allocation it
\* passes to free(), in order.
DestructorFrees(c) == WalkFrom(c.current_slab, <<>>) \o WalkFrom(c.partial_slabs, <<>>)

\* How many of the destructor's free() calls release the allocation of slot i.
FreeCalls(c, i) ==
    Cardinality({k \in 1 .. Len(DestructorFrees(c)) :
                    /\ hdr[DestructorFrees(c)[k]].raw_allocation # NULL
                    /\ SlotAt(hdr[DestructorFrees(c)[k]].raw_allocation) = i})

\* A thread exits between calls: the runtime runs slab_thread_destructor on its
\* cache.  free() of memory that is not allocated may abort the process.
ThreadExit(t) ==
    LET c == cache[t]
        bad == \E i \in Slots : FreeCalls(c, i) > (IF rawlive[i] THEN 1 ELSE 0)
    IN
    /\ fault = "none" /\ Idle(t) /\ tstate[t] # "exited" /\ Started(t)
    /\ work[t].created
    /\ work[t].strict => work[t].script = <<>>
    /\ \/ /\ rawlive' = [i \in Slots |-> rawlive[i] /\ FreeCalls(c, i) = 0]
          /\ released' = [i \in Slots |-> released[i] + FreeCalls(c, i)]
          /\ tstate' = [tstate EXCEPT ![t] = "exited"]
          /\ cache' = [cache EXCEPT ![t] = ZeroCache]
          /\ ret' = [ret EXCEPT ![t] = NoRet]
          /\ work' = [work EXCEPT ![t] = IF @.strict THEN [@ EXCEPT !.ptrs = <<>>, !.snap = <<>>]
                                          ELSE NoWork]
          /\ UNCHANGED <<geom, hdr, blk, held, pc, loc, fault>>
       \/ /\ bad
          /\ Crash("double_free")

\* A step of a call reads or writes memory that has been returned to the
\* system allocator: the process may be killed there, or go on with what the
\* memory still holds.
UseAfterFree(t) ==
    /\ fault = "none" /\ ~Idle(t)
    /\ \E a \in Accessed(t) : a # NULL /\ ~rawlive[SlotAt(a)]
    /\ Crash("use_after_free")

(* ------------------------------- Next ---------------------------------- *)

Next ==
    \E t \in Threads :
        \/ SlabAllocCall(t)
        \/ AllocTier1(t)
        \/ AllocTier2(t)
        \/ RefillRead(t)
        \/ RefillTake(t)
        \/ RefillPush(t)
        \/ RefillPop(t)
        \/ SlabPopRead(t)
        \/ SlabPopTake(t)
        \/ SlabPopReturn(t)
        \/ AllocTier3(t)
        \/ AllocTier4(t)
        \/ AllocOutOfMemory(t)
        \/ SlabFreeCall(t)
        \/ FreeFast(t)
        \/ FreeSlowRead(t)
        \/ FreeSlowPush(t)
        \/ FreeSlowLink(t)
        \/ CacheAllocFails(t)
        \/ ThreadExit(t)
        \/ UseAfterFree(t)

Spec == Init /\ [][Next]_vars

SpecSeq == InitSeq /\ [][Next]_vars

SpecWork == InitWork /\ [][Next]_vars

SpecReal == InitReal /\ [][Next]_vars


(* ----------------------------- properties ------------------------------ *)

\* The blocks of the list that starts at b in the link words m, and the
\* slabs of the list that starts at h in the headers m.
RECURSIVE MembersIn(_, _, _)
MembersIn(m, b, seen) ==
    IF b = NULL \/ b \in seen \/ b \notin BlockAddrs THEN seen
    ELSE MembersIn(m, m[b], seen \cup {b})

RECURSIVE SlabsIn(_, _, _)
SlabsIn(m, h, seen) ==
    IF h = NULL \/ h \in seen \/ h \notin SlabAddrs THEN seen
    ELSE SlabsIn(m, m[h].next, seen \cup {h})

Live(t) == tstate[t] = "live"
Quiescent == \A t \in Threads : Idle(t)
Running == fault = "none"

\* The slot whose slab region holds block b, and the blocks of slab s.
SlabBlocks(s) == {b \in BlockAddrs : MemStart(b) = s}

\* How many entries of the sequence q are blocks of slab s.
CountIn(q, s) == Cardinality({k \in 1 .. Len(q) : MemStart(q[k]) = s})

HeldOf(s) ==
    LET RECURSIVE Sum(_)
        Sum(B) == IF B = {} THEN 0
                  ELSE LET b == CHOOSE x \in B : TRUE IN held[b] + Sum(B \ {b})
    IN  Sum(SlabBlocks(s))

FastbinOf(s) ==
    LET RECURSIVE Sum(_)
        Sum(T) == IF T = {} THEN 0
                  ELSE LET t == CHOOSE x \in T : TRUE
                       IN CountIn(List(cache[t].fastbin), s) + Sum(T \ {t})
    IN  Sum({t \in Threads : Live(t)})

Owners(s) == {t \in Threads : s \in Reach(t)}

\* C1: while threads only call slab_alloc and slab_free (no thread has exited),
\* no address is held by callers twice.
C1_Uniqueness ==
    (\A t \in Threads : tstate[t] # "exited") => \A b \in BlockAddrs : held[b] <= 1

\* C2: no raw allocation is passed to free() twice.
C2_ReleasedOnce == \A i \in Slots : released[i] <= 1

\* C3: every slab is reachable from the lists of at most one thread.
C3_SingleOwner == \A s \in SlabAddrs : Cardinality(Owners(s)) <= 1

\* The slab whose free_list / free_count the next step of thread t accesses.
HeaderTouched(t) ==
    CASE pc[t] = "a1" /\ cache[t].fastbin = NULL -> cache[t].current_slab
      [] pc[t] \in {"a2", "r1", "r2", "p1", "p2", "p3", "f3", "f4"} -> loc[t].slab
      [] pc[t] = "f2" -> Parent(loc[t].block)
      [] OTHER -> NULL

\* C4: no step accesses the header of a slab another thread's lists reach.
C4_ThreadLocal ==
    [][\A t \in Threads :
          (pc'[t] # pc[t] /\ fault' = "none" /\ HeaderTouched(t) # NULL)
              => HeaderTouched(t) \notin ReachOthers(t)]_vars

\* C5: every held block masks to a live slab header whose mem is the masked address.
C5_OwnershipRecovery ==
    \A b \in BlockAddrs :
        held[b] > 0 =>
            /\ Parent(b) \in SlabAddrs
            /\ rawlive[SlotAt(Parent(b))]
            /\ hdr[Parent(b)].mem = MemStart(b)

\* C6: at quiescent points free_count is the length of free_list and every
\* block of a slab is on the free list, held or in a fastbin.
C6_Conservation ==
    (Running /\ Quiescent) =>
        \A i \in Slots :
            rawlive[i] =>
                LET s == SlabAddr(i) IN
                /\ Acyclic(hdr[s].free_list, {})
                /\ hdr[s].free_count = Len(List(hdr[s].free_list))
                /\ hdr[s].free_count + HeldOf(s) + FastbinOf(s) = EFFECTIVE_BLOCKS

\* C7: fastbin_count never exceeds BLOCK_CACHE_LIMIT.
C7_FastbinCap == \A t \in Threads : cache[t].fastbin_count <= geom.cache_limit

\* C8: every fastbin block belongs to a slab the same thread's lists reach.
C8_FastbinOwned ==
    \A t \in Threads :
        Live(t) => \A b \in ListSet(cache[t].fastbin) : MemStart(b) \in Reach(t)

\* C9: no slab is reachable from both current_slab and partial_slabs of a cache.
C9_ListsDisjoint ==
    \A t \in Threads :
        Live(t) => Chain(cache[t].current_slab) \cap Chain(cache[t].partial_slabs) = {}

\* C10: a slab_alloc that returns NULL because malloc refused left the cache of
\* its thread as it was at the call, and wrote to no slab and no block.
C10_OomLeavesState ==
    [][\A t \in Threads :
          (pc[t] = "a3" /\ pc'[t] = "idle" /\ ret'[t] = "null")
              => /\ cache'[t] = loc[t].entry
                 /\ cache' = cache /\ hdr' = hdr /\ blk' = blk
                 /\ rawlive' = rawlive]_vars

\* C11: whichever request the system allocator refuses, a call returns or
\* completes: no call dereferences a null thread cache.
C11_NoNullCache == fault # "null_cache"

\* The blocks on the free list of slab s.
FreeListOf(s) == ListSet(hdr[s].free_list)

\* A slab_free call of thread t is at its first test and the fastbin has room.
AtFastFree(t) == pc[t] = "f1" /\ FastbinHasRoom(cache[t])

\* C12: a slab_free call that finds room in the caller's fastbin pushes the
\* block there and completes; it changes no slab's free_list or free_count,
\* neither slab list of the caller and no other thread's cache.
C12_FastFreeFrame ==
    [][\A t \in Threads :
          /\ (AtFastFree(t) /\ ret'[t] = "freed") =>
                /\ cache'[t].fastbin = loc[t].block
                /\ cache'[t].current_slab = cache[t].current_slab
                /\ cache'[t].partial_slabs = cache[t].partial_slabs
                /\ \A u \in Threads \ {t} : cache'[u] = cache[u]
                /\ \A s \in SlabAddrs :
                      /\ hdr'[s] = hdr[s]
                      /\ FreeListOf(s)' = FreeListOf(s)
          /\ (AtFastFree(t) /\ \A u \in Threads \ {t} : Idle(u)) =>
                fault' # "use_after_free"]_vars

\* Thread t has just completed the pair "block = slab_alloc(); slab_free(block);".
PairDone(t) == Running /\ work[t].snap # <<>> /\ Idle(t) /\ ret[t] = "freed"
Before(t) == work[t].snap[1]

\* The slabs on the lists of thread t before or after the pair, and the slabs
\* of the blocks of its fastbin.
PairSlabs(t) ==
    LET o == Before(t) IN
    SlabsIn(o.hdr, o.cache.current_slab, {}) \cup SlabsIn(o.hdr, o.cache.partial_slabs, {})
    \cup SlabsIn(hdr, cache[t].current_slab, {}) \cup SlabsIn(hdr, cache[t].partial_slabs, {})
    \cup {MemStart(b) : b \in MembersIn(blk, cache[t].fastbin, {})}

\* The state of thread t equals the state before the pair, up to the order of
\* the blocks inside the free lists.
SameUpToOrder(t) ==
    LET o == Before(t)
        c == cache[t]
    IN  /\ c.fastbin_count = o.cache.fastbin_count
        /\ MembersIn(blk, c.fastbin, {}) = MembersIn(o.blk, o.cache.fastbin, {})
        /\ c.current_slab = o.cache.current_slab
        /\ c.partial_slabs = o.cache.partial_slabs
        /\ \A s \in PairSlabs(t) :
              /\ hdr[s].free_count = o.hdr[s].free_count
              /\ MembersIn(blk, hdr[s].free_list, {}) = MembersIn(o.blk, o.hdr[s].free_list, {})

\* C13 (as stated): from any reachable state of a thread, slab_alloc followed
\* immediately by slab_free of the returned address on the same thread leaves
\* the state equal to the state before the slab_alloc, up to the order of the
\* blocks inside free lists.
C13_RoundTrip == \A t \in Threads : PairDone(t) => SameUpToOrder(t)

\* The fastbin held a block, and its count was within 1 .. BLOCK_CACHE_LIMIT.
FastbinServes(o) ==
    o.cache.fastbin # NULL /\ o.cache.fastbin_count \in 1 .. geom.cache_limit

\* C13 (amended): from any reachable state of a thread whose fastbin is not
\* empty (fastbin_count between 1 and BLOCK_CACHE_LIMIT), slab_alloc followed
\* immediately by slab_free of the returned address on the same thread leaves
\* the state equal to the state before the slab_alloc, up to the order of the
\* blocks inside free lists.
C13_RoundTripFromFastbin ==
    \A t \in Threads : (PairDone(t) /\ FastbinServes(Before(t))) => SameUpToOrder(t)

C13_Witness ==
    \E t \in Threads : PairDone(t) /\ FastbinServes(Before(t)) /\ SameUpToOrder(t)

\* Thread t is a fresh thread that has made n slab_alloc calls, none of them
\* refused, and no slab_free call.
AllocsOnly(t, n) ==
    /\ Running /\ work[t].strict /\ Idle(t) /\ tstate[t] = "live"
    /\ work[t].freed = 0 /\ work[t].refused = 0
    /\ Len(work[t].ptrs) = n

\* The slabs constructed so far, while no thread that owns a slab has exited:
\* the allocations of the system allocator that are live.
SlabsBuilt == Cardinality({i \in Slots : rawlive[i]})

\* C14: on a fresh thread with no frees, EFFECTIVE_BLOCKS * k + 1 slab_alloc
\* calls cause exactly k + 1 slab constructions.
C14_Constructions ==
    \A t \in Threads : \A k \in 0 .. MaxSlabs - 1 :
        AllocsOnly(t, EFFECTIVE_BLOCKS * k + 1) => SlabsBuilt = k + 1

C14_Witness ==
    \E t \in Threads : AllocsOnly(t, EFFECTIVE_BLOCKS * (MaxSlabs - 1) + 1) /\ SlabsBuilt = MaxSlabs

\* After n calls of the fresh thread t, one slab exists and is current, with
\* free_count free blocks, and the fastbin holds fastbin_count blocks.
FirstSlabHas(t, free_count, fastbin_count) ==
    /\ SlabsBuilt = 1
    /\ cache[t].current_slab \in SlabAddrs
    /\ hdr[cache[t].current_slab].free_count = free_count
    /\ cache[t].fastbin_count = fastbin_count
    /\ Cardinality(MembersIn(blk, cache[t].fastbin, {})) = fastbin_count
    /\ (fastbin_count = 0) = (cache[t].fastbin = NULL)

\* Calls 1 .. 32 of the fresh thread: the first builds a slab, moves
\* BLOCK_CACHE_REFILL_LIMIT blocks to the fastbin and returns one of them; the
\* calls up to call 32 pop the fastbin and leave the slab alone.
FirstRefill(t) ==
    \A n \in 1 .. BLOCK_CACHE_REFILL_LIMIT :
        AllocsOnly(t, n) =>
            FirstSlabHas(t, EFFECTIVE_BLOCKS - BLOCK_CACHE_REFILL_LIMIT, BLOCK_CACHE_REFILL_LIMIT - n)

\* C15 (as stated): of 33 consecutive slab_alloc calls of a fresh thread the
\* 1st constructs one slab and moves 32 blocks into the fastbin returning one
\* of them, calls 2-32 pop the fastbin, and call 33 pops the last fastbin
\* entry, leaving current_slab.free_count = EFFECTIVE_BLOCKS - 33.
C15_RefillActivation ==
    \A t \in Threads :
        /\ FirstRefill(t)
        /\ AllocsOnly(t, BLOCK_CACHE_REFILL_LIMIT + 1) =>
              FirstSlabHas(t, EFFECTIVE_BLOCKS - (BLOCK_CACHE_REFILL_LIMIT + 1), 0)

\* C15 (amended): the 1st call constructs one slab and moves 32 blocks into
\* the fastbin returning one of them, calls 2-32 pop the fastbin, call 32
\* taking its last entry, and call 33 runs a second batched refill, leaving
\* current_slab.free_count = EFFECTIVE_BLOCKS - 64 and 31 blocks in the fastbin.
C15_SecondRefill ==
    \A t \in Threads :
        /\ FirstRefill(t)
        /\ AllocsOnly(t, BLOCK_CACHE_REFILL_LIMIT + 1) =>
              FirstSlabHas(t, EFFECTIVE_BLOCKS - 2 * BLOCK_CACHE_REFILL_LIMIT,
                           BLOCK_CACHE_REFILL_LIMIT - 1)

C15_Witness ==
    \E t \in Threads :
        /\ AllocsOnly(t, BLOCK_CACHE_REFILL_LIMIT + 1)
        /\ FirstSlabHas(t, EFFECTIVE_BLOCKS - 2 * BLOCK_CACHE_REFILL_LIMIT, BLOCK_CACHE_REFILL_LIMIT - 1)

\* Thread t, never refused, obtained BLOCK_CACHE_LIMIT + 1 blocks and is in
\* its j-th slab_free call of those blocks.
InFree(t, j) ==
    /\ Running /\ work[t].strict /\ work[t].refused = 0 /\ ~Idle(t)
    /\ work[t].freed = j /\ Len(work[t].ptrs) = BLOCK_CACHE_LIMIT + 1 - j

TakesFastPath(t) == pc[t] = "f1" => FastbinHasRoom(cache[t])
TakesSlowPath(t) == pc[t] = "f1" => ~FastbinHasRoom(cache[t])

\* The slow path found the slab of the block by the address mask and put the
\* block at the head of its free list (lines 251-257).
SlowPathPushed(t) ==
    pc[t] = "f4" =>
        /\ loc[t].slab = MemStart(loc[t].block)
        /\ loc[t].slab = cache[t].current_slab
        /\ hdr[loc[t].slab].free_list = loc[t].block

\* C16 (as stated): of the 65 frees the first 64 are pushed onto the fastbin
\* and only the 65th takes the slow path, which recovers the owning slab by
\* the address mask and puts the block on that slab's free_list.
C16_Saturation ==
    \A t \in Threads :
        /\ \A j \in 1 .. BLOCK_CACHE_LIMIT : InFree(t, j) => TakesFastPath(t)
        /\ InFree(t, BLOCK_CACHE_LIMIT + 1) => (TakesSlowPath(t) /\ SlowPathPushed(t))

\* The frees the fastbin takes after the BLOCK_CACHE_LIMIT + 1 allocations:
\* the third refill left BLOCK_CACHE_REFILL_LIMIT - 1 blocks in it.
FastFrees == BLOCK_CACHE_LIMIT - (BLOCK_CACHE_REFILL_LIMIT - 1)

\* C16 (amended): of the 65 frees the first 33 are pushed onto the fastbin,
\* which still holds 31 blocks of the last refill, and frees 34 to 65 take the
\* slow path, each recovering the owning slab by the address mask and putting
\* the block on that slab's free_list.
C16_SaturationAfterRefill ==
    \A t \in Threads :
        /\ \A j \in 1 .. FastFrees : InFree(t, j) => (TakesFastPath(t) /\ pc[t] = "f1")
        /\ \A j \in FastFrees + 1 .. BLOCK_CACHE_LIMIT + 1 :
              InFree(t, j) => (TakesSlowPath(t) /\ SlowPathPushed(t))

C16_Witness ==
    \E t \in Threads :
        /\ InFree(t, BLOCK_CACHE_LIMIT + 1) /\ pc[t] = "f4"
        /\ hdr[MemStart(loc[t].block)].free_list = loc[t].block

\* The slab the fresh thread t has been allocating from: the only one built.
FirstSlab == CHOOSE s \in SlabAddrs : rawlive[SlotAt(s)]

\* C17: after exactly EFFECTIVE_BLOCKS slab_alloc calls on a fresh thread with
\* no frees, the slab's free_count is 0, the fastbin is empty and current_slab
\* is null; the next slab_alloc constructs a fresh slab.
C17_Exhaustion ==
    \A t \in Threads :
        /\ AllocsOnly(t, EFFECTIVE_BLOCKS) =>
              /\ SlabsBuilt = 1
              /\ hdr[FirstSlab].free_count = 0
              /\ cache[t].fastbin = NULL /\ cache[t].fastbin_count = 0
              /\ cache[t].current_slab = NULL
        /\ AllocsOnly(t, EFFECTIVE_BLOCKS + 1) =>
              /\ SlabsBuilt = 2
              /\ cache[t].current_slab \in SlabAddrs \ {s \in SlabAddrs : hdr[s].free_count = 0}

C17_Witness ==
    \E t \in Threads :
        /\ AllocsOnly(t, EFFECTIVE_BLOCKS + 1) /\ SlabsBuilt = 2
        /\ \E s \in SlabAddrs : rawlive[SlotAt(s)] /\ hdr[s].free_count = 0 /\ s # cache[t].current_slab

\* ceil(a / b)
CeilDiv(a, b) == (a + b - 1) \div b

\* The block slots a header of sizeof(Slab) bytes occupies.
HeaderSlots == CeilDiv(geom.sizeof_slab, geom.block_size)

\* The step of thread t is Tier 4 constructing a slab.
Constructs(t) ==
    /\ pc[t] = "a3" /\ cache[t].partial_slabs = NULL
    /\ pc'[t] = "a1" /\ fault' = "none"

\* C20: the header takes ceil(sizeof(Slab) / BLOCK_SIZE) block slots: a newly
\* constructed slab has free_count = EFFECTIVE_BLOCKS = BLOCK_COUNT minus that
\* number, and its blocks start that many slots after the header's address.
C20_HeaderSlots ==
    [][\A t \in Threads :
          Constructs(t) =>
              LET s == cache'[t].current_slab IN
              /\ hdr'[s].free_count = EFFECTIVE_BLOCKS
              /\ EFFECTIVE_BLOCKS = geom.block_count - HeaderSlots
              /\ hdr'[s].free_list = s + HeaderSlots * geom.block_size]_vars

\* The call thread t is in directly follows a slab_free of t (a slab_alloc), or
\* directly follows a slab_alloc that directly followed a slab_free (a slab_free).
AllocAfterFree(t) == Running /\ pc[t] = "a1" /\ loc[t].depth = 0 /\ loc[t].prev = "freed"
FreeAfterPair(t) == Running /\ pc[t] = "f1" /\ loc[t].prev = "block_after_free"

\* C18: once a thread has performed a slab_free, in a following run of
\* alternating slab_alloc / slab_free calls every slab_alloc is served from the
\* fastbin (Tier 1) and every slab_free takes the fast path.
C18_SteadyState ==
    \A t \in Threads :
        /\ AllocAfterFree(t) => cache[t].fastbin # NULL
        /\ FreeAfterPair(t) => FastbinHasRoom(cache[t])

\* Every thread has run worker() to its end (M allocations, the M frees of
\* those blocks, pairs) and has exited.
StressDone ==
    /\ Running
    /\ \A t \in Threads : work[t].strict /\ work[t].script = <<>> /\ tstate[t] = "exited"

\* C19: in the stress pattern, once all threads have exited every slab ever
\* constructed has been released to the system allocator.
C19_NoLeak == StressDone => \A i \in Slots : ~rawlive[i]

C19_Witness ==
    /\ StressDone
    /\ \A i \in Slots : ~rawlive[i] /\ released[i] = 1

\* The k-th block of the free list a construction threads: the loop of lines
\* 139-144 steps BLOCK_SIZE bytes from one block to the next.
BlockAt(h, s, k) == h[s].free_list + k * geom.block_size

\* In the headers h and the link words m, the free list of slab s is the
\* blocks BlockAt(h, s, 0 .. EFFECTIVE_BLOCKS - 1), in this order.
ThreadedInOrder(h, m, s) ==
    \A k \in 0 .. EFFECTIVE_BLOCKS - 1 :
        /\ BlockAt(h, s, k) \in DOMAIN m
        /\ m[BlockAt(h, s, k)] = IF k = EFFECTIVE_BLOCKS - 1 THEN NULL ELSE BlockAt(h, s, k + 1)

\* The aligned region of slab s lies inside its raw allocation of
\* 2 * alignment bytes.
RegionInsideRaw(h, s) ==
    /\ h[s].mem = s
    /\ h[s].raw_allocation <= s
    /\ s + Alignment <= h[s].raw_allocation + 2 * Alignment

\* Block b lies inside the region of slab s, after the header, and masks to s.
BlockWellPlaced(s, b) ==
    /\ s + geom.sizeof_slab <= b
    /\ b + geom.block_size <= s + Alignment
    /\ MemStart(b) = s

\* C21: for every raw address the system allocator returns, the aligned
\* region of a new slab lies inside the raw allocation, and every one of the
\* EFFECTIVE_BLOCKS blocks threaded onto free_list lies inside that region,
\* after the header, without overlapping another block (each lies BLOCK_SIZE
\* bytes after the one before), so that masking any block address yields mem.
C21_AlignedRegion ==
    [][\A t \in Threads :
          Constructs(t) =>
              LET s == cache'[t].current_slab IN
              /\ RegionInsideRaw(hdr', s)
              /\ ThreadedInOrder(hdr', blk', s)
              /\ \A k \in 0 .. EFFECTIVE_BLOCKS - 1 : BlockWellPlaced(s, BlockAt(hdr', s, k))]_vars

\* A slab has been constructed in an allocation placed as far from an
\* aligned address as malloc can place it, and its blocks are all on its
\* free list.
C21_Witness ==
    \E i \in Slots :
        /\ rawlive[i] /\ RawAddr(i) # SlabAddr(i)
        /\ geom.malloc_offset = Alignment - MALLOC_ALIGN
        /\ RegionInsideRaw(hdr, SlabAddr(i))
        /\ ThreadedInOrder(hdr, blk, SlabAddr(i))

\* The slabs the lists of thread t name: its current slab and the slabs on its
\* partial list.
Listed(t) ==
    (IF cache[t].current_slab = NULL THEN {} ELSE {cache[t].current_slab})
    \cup Chain(cache[t].partial_slabs)

\* C22: whenever no slab_alloc or slab_free call is in progress, every slab
\* on any thread's partial_slabs list and every non-null current_slab has
\* free_count >= 1; a slab whose free_count is 0 is reachable from no list.
C22_ListedSlabsHaveFree ==
    (Running /\ Quiescent) =>
        \A t \in Threads :
            Live(t) =>
                /\ \A s \in Listed(t) : hdr[s].free_count >= 1
                /\ \A s \in Reach(t) : hdr[s].free_count # 0

\* The number of blocks on the fastbin list of cache c.
FastbinLength(c) == Len(List(c.fastbin))

\* C23: in every reachable state, for every thread cache, fastbin_count
\* equals the number of blocks on the fastbin list; in particular the fastbin
\* pointer is null exactly when fastbin_count is 0.
C23_FastbinCount ==
    Running =>
        \A t \in Threads :
            Live(t) =>
                /\ Acyclic(cache[t].fastbin, {})
                /\ cache[t].fastbin_count = FastbinLength(cache[t])
                /\ (cache[t].fastbin = NULL) = (cache[t].fastbin_count = 0)

\* The slabs constructed and not released, and the places block b is in:
\* the callers holding it, the fastbins it is on and the free lists it is on.
Constructed == {SlabAddr(i) : i \in {j \in Slots : rawlive[j]}}
OnFastbins(b) == {t \in Threads : Live(t) /\ b \in ListSet(cache[t].fastbin)}
OnFreeLists(b) == {s \in Constructed : b \in FreeListOf(s)}
Places(b) == held[b] + Cardinality(OnFastbins(b)) + Cardinality(OnFreeLists(b))

\* C24: every block of every constructed slab is in exactly one place: held
\* by a caller, on exactly one thread's fastbin (once), or on its own slab's
\* free_list (once); no block is on two free structures or on a free
\* structure while held.  Stated of the states with no call in progress.
C24_OnePlace ==
    (Running /\ Quiescent) =>
        /\ \A t \in Threads : Live(t) => Acyclic(cache[t].fastbin, {})
        /\ \A s \in Constructed :
              /\ Acyclic(hdr[s].free_list, {})
              /\ \A b \in SlabBlocks(s) :
                    /\ Places(b) = 1
                    /\ OnFreeLists(b) \subseteq {s}

\* The call of thread t is a retry ("return slab_alloc();", lines 220 and
\* 229), and it has passed Tier 1 and Tier 2 and stands at line 214.
Retrying(t) == loc[t].depth >= 1
AtTier3(t) == pc[t] = "a3"

\* C25: a slab_alloc call re-enters itself at most once: after installing
\* the head of partial_slabs as current_slab, or after constructing a fresh
\* slab, the retry is served by the fastbin or the current slab and never
\* reaches Tier 3 or Tier 4 again.
C25_SingleRetry == \A t \in Threads : (Running /\ Retrying(t)) => ~AtTier3(t)

====
